---- MODULE Spec2Model ----
(***************************************************************************)
(* Federated-learning experiment drivers: task dispatch (main), the EMNIST *)
(* and Stack Overflow next-word drivers (run_federated), the round loop    *)
(* they hand their training process to, the held-out split, the masked     *)
(* accuracy metrics and the client weighting.                              *)
(*                                                                         *)
(* Two executions of the program are modelled, "a" and then "b" (a re-run  *)
(* with the same configuration once "a" has ended), so that statements     *)
(* about reproducibility compare two independent runs.                     *)
(***************************************************************************)
EXTENDS Integers, Sequences, FiniteSets, Bags, TLC

VARIABLES
    cfg,            \* flags / arguments of the experiment (fixed for both runs)
    pc,             \* pc[i]: where run i is
    argv,           \* argv[i]: number of command-line words main received
    driver,         \* driver[i]: the task driver main dispatched to
    error,          \* error[i]: the exception that ended run i, if any
    process,        \* process[i]: the training process built by the driver
    sampler,        \* sampler[i]: arguments client_datasets_fn was built with
    state,          \* state[i]: the server state held by the round loop
    round_num,      \* round_num[i]: index of the round in progress
    sampled,        \* sampled[i]: client ids sampled for the round in progress
    calls,          \* calls[i]: log of calls to initialize / next
    agg,            \* agg[i]: weights and denominator of the last aggregation
    train,          \* train[c]: what client c reports after training on its data
    held,           \* the held-out dataset and the validation cutoff
    splits,         \* splits[i]: validation / test sets built by the driver
    evalfns,        \* evalfns[i]: validation_fn / test_fn built by the driver
    evals,          \* evals[i]: log of the evaluations the round loop ran
    batch,          \* a batch of labels and predictions given to the metrics
    metrics,        \* the metric values computed on the batch
    outputs,        \* locally reported outputs of a list of clients
    aggregate       \* the aggregation computed from outputs

vars == <<cfg, pc, argv, driver, error, process, sampler, state, round_num,
          sampled, calls, agg, train, held, splits, evalfns, evals, batch, metrics, outputs,
          aggregate>>

(***************************************************************************)
(* Bounds of the model.                                                    *)
(***************************************************************************)
NumClients == 3        \* client ids of the training dataset: 1..NumClients
MaxRounds == 3         \* total_rounds ranges over 0..MaxRounds
MaxSeed == 2           \* integer seeds range over 1..MaxSeed
MaxHeldOut == 3        \* examples in the held-out dataset
MaxBatch == 3          \* tokens in a batch of labels
MaxVocab == 1          \* vocab_size ranges over 1..MaxVocab
MaxOov == 1            \* num_oov_buckets ranges over 0..MaxOov
MaxTokens == 5         \* tokens one client reports (aggregation)
MaxExamples == 2       \* examples one client reports (aggregation)
NumAggClients == 3     \* clients in one aggregation
RoundsPerEval == 2     \* validation runs after every RoundsPerEval-th round

Runs == {"a", "b"}
None == "None"

Range(s) == {s[j] : j \in DOMAIN s}

RECURSIVE SumSeq(_)
SumSeq(s) == IF s = <<>> THEN 0 ELSE s[1] + SumSeq(Tail(s))

\* Optional[int]: <<>> is None, <<n>> is the integer n.
NoSeed == <<>>

(***************************************************************************)
(* federated_trainer.py                                                    *)
(***************************************************************************)
SUPPORTED_TASKS ==
    <<"cifar100", "emnist_cr", "emnist_ae", "shakespeare",
      "stackoverflow_nwp", "stackoverflow_lr">>

\* flags.DEFINE_enum('emnist_cr_model', 'cnn', ['cnn', '2nn'], ...)
EMNIST_CR_MODEL_FLAG == {"cnn", "2nn"}

NoError == [type |-> None, template |-> "", args |-> <<>>]

\* app.UsageError('Expected no command-line arguments, got: {}'.format(argv))
UsageError(n) ==
    [type |-> "UsageError",
     template |-> "Expected no command-line arguments, got: {}",
     args |-> <<n>>]

\* ValueError('--task flag {} is not supported, must be one of {}.'
\*            .format(FLAGS.task, _SUPPORTED_TASKS))
TaskError(task) ==
    [type |-> "ValueError",
     template |-> "--task flag {} is not supported, must be one of {}.",
     args |-> <<task, SUPPORTED_TASKS>>]

\* The if / elif chain of main: the driver module whose run_federated is
\* called for a task, None when the chain falls through to the else branch.
TaskDriver(task) ==
    IF task = "cifar100" THEN "federated_cifar100"
    ELSE IF task = "emnist_cr" THEN "federated_emnist"
    ELSE IF task = "emnist_ae" THEN "federated_emnist_ae"
    ELSE IF task = "shakespeare" THEN "federated_shakespeare"
    ELSE IF task = "stackoverflow_nwp" THEN "federated_stackoverflow"
    ELSE IF task = "stackoverflow_lr" THEN "federated_stackoverflow_lr"
    ELSE None

\* Variant of common_args that leaves the seed flag out.
CommonArgsSeedDropped(flags) ==
    [clients_per_round |-> flags.clients_per_round,
     client_datasets_random_seed |-> NoSeed]

\* common_args: what main hands to every driver from the flags.
common_args(flags) ==
    [clients_per_round |-> flags.clients_per_round,
     client_datasets_random_seed |-> flags.seed]

NoProcess == [built |-> FALSE, client_weight_fn |-> None]

\* iterative_process_builder: the process built by build_fed_avg_process
\* keeps the client_weight_fn it was given (None when the driver gives none).
iterative_process_builder(weight_fn) ==
    [built |-> TRUE, client_weight_fn |-> weight_fn]

\* assign_weights_fn = fed_avg_schedule.ServerState.assign_weights_to_keras_model
assign_weights_fn == "ServerState.assign_weights_to_keras_model"

(***************************************************************************)
(* federated_emnist.py                                                     *)
(***************************************************************************)
EMNIST_MODELS == <<"cnn", "2nn">>

\* ValueError('Cannot handle model flag [{!s}], must be one of {!s}.'
\*            .format(emnist_model, EMNIST_MODELS))
ModelError(emnist_model) ==
    [type |-> "ValueError",
     template |-> "Cannot handle model flag [{!s}], must be one of {!s}.",
     args |-> <<emnist_model, EMNIST_MODELS>>]

\* Variant of the model choice whose else branch falls back to the CNN.
EmnistModelBuilderDefaultsToCnn(emnist_model) ==
    IF emnist_model = "2nn" THEN "create_two_hidden_layer_model"
    ELSE "create_conv_dropout_model"

\* The model builder chosen for emnist_model, None where the code raises.
EmnistModelBuilder(emnist_model) ==
    IF emnist_model = "cnn" THEN "create_conv_dropout_model"
    ELSE IF emnist_model = "2nn" THEN "create_two_hidden_layer_model"
    ELSE None

NoSampler == [built |-> FALSE, train_clients_per_round |-> 0,
              random_seed |-> NoSeed]

\* Variant of the call below with its two integer arguments swapped.
EmnistClientDatasetsFnSwapped(clients_per_round, seed) ==
    [built |-> TRUE,
     train_clients_per_round |-> IF seed = NoSeed THEN 0 ELSE seed[1],
     random_seed |-> <<clients_per_round>>]

\* training_utils.build_client_datasets_fn(train_dataset=emnist_train,
\*     train_clients_per_round=clients_per_round,
\*     random_seed=client_datasets_random_seed)
EmnistClientDatasetsFn(clients_per_round, seed) ==
    [built |-> TRUE, train_clients_per_round |-> clients_per_round,
     random_seed |-> seed]

\* emnist_dataset.get_emnist_datasets, its second result: the held-out
\* EMNIST examples, each preprocessed on its own.
get_emnist_test(ds) ==
    [j \in 1..Len(ds) |-> [id |-> ds[j].id, tokens |-> <<ds[j].raw>>]]

NoEvalFn ==
    [eval_dataset |-> <<>>, model_builder |-> None, loss_builder |-> None,
     metrics_builder |-> None, assign_weights_to_keras_model |-> None]

NoEvalFns == [built |-> FALSE, validation_fn |-> NoEvalFn, test_fn |-> NoEvalFn]

\* evaluate_fn = training_utils.build_evaluate_fn(eval_dataset=emnist_test,
\*     model_builder=model_builder, loss_builder=loss_builder,
\*     metrics_builder=metrics_builder,
\*     assign_weights_to_keras_model=assign_weights_fn)
EmnistEvaluateFn(emnist_test, model_builder) ==
    [eval_dataset |-> emnist_test,
     model_builder |-> model_builder,
     loss_builder |-> "SparseCategoricalCrossentropy",
     metrics_builder |-> "SparseCategoricalAccuracy",
     assign_weights_to_keras_model |-> assign_weights_fn]

\* training_loop.run(..., validation_fn=evaluate_fn, test_fn=evaluate_fn)
EmnistEvalFns(emnist_test, model_builder) ==
    [built |-> TRUE,
     validation_fn |-> EmnistEvaluateFn(emnist_test, model_builder),
     test_fn |-> EmnistEvaluateFn(emnist_test, model_builder)]

(***************************************************************************)
(* federated_stackoverflow.py                                              *)
(***************************************************************************)
\* stackoverflow_dataset.get_special_tokens(vocab_size, num_oov_buckets):
\* pad, the out-of-vocabulary buckets, beginning and end of sequence.
get_special_tokens(vocab_size, num_oov_buckets) ==
    [pad |-> 0,
     oov |-> [j \in 1..num_oov_buckets |-> vocab_size + j],
     bos |-> vocab_size + num_oov_buckets + 1,
     eos |-> vocab_size + num_oov_buckets + 2]

\* Variant of metrics_builder whose accuracy_no_oov masks the oov tokens only.
MetricsBuilderNoOovForgetsPad(special_tokens) ==
    [accuracy_with_oov |-> <<special_tokens.pad>>,
     accuracy_no_oov |-> special_tokens.oov,
     accuracy_no_oov_or_eos |->
         <<special_tokens.pad, special_tokens.eos>> \o special_tokens.oov,
     num_tokens |-> <<special_tokens.pad>>]

\* metrics_builder: the masked accuracies and the token counter, each with
\* the list of masked tokens it is constructed with.
metrics_builder(special_tokens) ==
    [accuracy_with_oov |-> <<special_tokens.pad>>,
     accuracy_no_oov |-> <<special_tokens.pad>> \o special_tokens.oov,
     accuracy_no_oov_or_eos |->
         <<special_tokens.pad, special_tokens.eos>> \o special_tokens.oov,
     num_tokens |-> <<special_tokens.pad>>]

\* tf.data: take(count) keeps the first count elements, all of them when
\* count is -1 or exceeds the size of the dataset.
Take(ds, count) ==
    IF count < 0 \/ count >= Len(ds) THEN ds ELSE SubSeq(ds, 1, count)

\* tf.data: skip(count) drops the first count elements, all of them when
\* count is -1 or exceeds the size of the dataset.
Skip(ds, count) ==
    IF count < 0 \/ count >= Len(ds) THEN <<>>
    ELSE SubSeq(ds, count + 1, Len(ds))

\* preprocess_val_and_test: an element-wise pipeline; every raw example
\* becomes one tokenised example.
preprocess_val_and_test(ds) ==
    [j \in 1..Len(ds) |-> [id |-> ds[j].id, tokens |-> <<ds[j].raw>>]]

NoSplit == [built |-> FALSE, validation_set |-> <<>>, test_set |-> <<>>]

\* Variant of the split whose test set skips one example too many.
SplitTestSkipsOneMore(base_test_dataset, num_validation_examples) ==
    [built |-> TRUE,
     validation_set |->
         preprocess_val_and_test(Take(base_test_dataset, num_validation_examples)),
     test_set |->
         preprocess_val_and_test(Skip(base_test_dataset, num_validation_examples + 1))]

\* test_set = preprocess(base.skip(K)); validation_set = preprocess(base.take(K))
SplitHeldOut(base_test_dataset, num_validation_examples) ==
    [built |-> TRUE,
     validation_set |->
         preprocess_val_and_test(Take(base_test_dataset, num_validation_examples)),
     test_set |->
         preprocess_val_and_test(Skip(base_test_dataset, num_validation_examples))]

\* tf.squeeze of an int64[1] tensor: its single element.
Squeeze(v) == v[1]

\* tf.cast(., tf.float32) of a non-negative integer: exact up to 2^24, then
\* rounded to the float32 grid (multiples of 2 up to 2^25).
CastFloat32(n) ==
    IF n <= 16777216 THEN n ELSE 2 * ((n + 1) \div 2)

\* Variant of client_weight_fn that reads the batch counter.
ClientWeightFnCountsBatches(local_outputs) ==
    CastFloat32(local_outputs.num_batches)

\* client_weight_fn(local_outputs)
client_weight_fn(local_outputs) ==
    CastFloat32(Squeeze(local_outputs.num_tokens))

\* training_utils.build_client_datasets_fn(train_dataset=train_clientdata,
\*     train_clients_per_round=clients_per_round,
\*     random_seed=client_datasets_random_seed)
StackoverflowClientDatasetsFn(clients_per_round, seed) ==
    [built |-> TRUE, train_clients_per_round |-> clients_per_round,
     random_seed |-> seed]

\* evaluate_fn = training_utils.build_evaluate_fn(model_builder=model_builder,
\*     eval_dataset=validation_set, loss_builder=loss_builder,
\*     metrics_builder=metrics_builder,
\*     assign_weights_to_keras_model=assign_weights_fn)
StackoverflowEvaluateFn(validation_set) ==
    [eval_dataset |-> validation_set,
     model_builder |-> "create_recurrent_model",
     loss_builder |-> "SparseCategoricalCrossentropy(from_logits=True)",
     metrics_builder |-> "metrics_builder",
     assign_weights_to_keras_model |-> assign_weights_fn]

\* Variant of test_fn that evaluates the test set alone.
StackoverflowTestFnTestSetOnly(validation_set, test_set) ==
    [eval_dataset |-> test_set,
     model_builder |-> "create_recurrent_model",
     loss_builder |-> "SparseCategoricalCrossentropy(from_logits=True)",
     metrics_builder |-> "metrics_builder",
     assign_weights_to_keras_model |-> assign_weights_fn]

\* test_fn = training_utils.build_evaluate_fn(model_builder=model_builder,
\*     eval_dataset=validation_set.concatenate(test_set),
\*     loss_builder=loss_builder, metrics_builder=metrics_builder,
\*     assign_weights_to_keras_model=assign_weights_fn)
StackoverflowTestFn(validation_set, test_set) ==
    [eval_dataset |-> validation_set \o test_set,
     model_builder |-> "create_recurrent_model",
     loss_builder |-> "SparseCategoricalCrossentropy(from_logits=True)",
     metrics_builder |-> "metrics_builder",
     assign_weights_to_keras_model |-> assign_weights_fn]

\* training_loop.run(..., validation_fn=evaluate_fn, test_fn=test_fn)
StackoverflowEvalFns(sp) ==
    [built |-> TRUE,
     validation_fn |-> StackoverflowEvaluateFn(sp.validation_set),
     test_fn |-> StackoverflowTestFn(sp.validation_set, sp.test_set)]

(***************************************************************************)
(* The collaborators the drivers call: the client sampler built by         *)
(* build_client_datasets_fn, the training process (initialize / next) and  *)
(* the round loop of training_loop.run.                                    *)
(***************************************************************************)
ClientIds == 1..NumClients

\* The seeded selection for a round: a function of (seed, round_num) that
\* lists `size` distinct client ids.
SeededSample(size, seed, r) ==
    [j \in 1..size |-> ((seed + r + j - 2) % NumClients) + 1]

\* Every list of `size` distinct client ids (a draw without replacement).
DistinctLists(size) ==
    {s \in [1..size -> ClientIds] :
        \A j, k \in 1..size : j # k => s[j] # s[k]}

\* The selections the sampler can return for round r: one when seeded, any
\* draw without replacement when not; none when size exceeds the clients.
SampleChoices(sp, r) ==
    IF sp.train_clients_per_round > NumClients THEN {}
    ELSE IF sp.random_seed = NoSeed
         THEN DistinctLists(sp.train_clients_per_round)
         ELSE {SeededSample(sp.train_clients_per_round, sp.random_seed[1], r)}

NoState == [defined |-> FALSE, version |-> 0]

\* initialize: () -> S
initialize == [defined |-> TRUE, version |-> 0]

\* next: (S, client datasets) -> S; the new state is a new value.
next(s) == [defined |-> TRUE, version |-> s.version + 1]

\* The weight of one client in the federated average: client_weight_fn of
\* its local outputs when the process has one, else its number of examples.
ClientWeight(proc, local_outputs) ==
    IF proc.client_weight_fn = None
    THEN CastFloat32(local_outputs.num_examples)
    ELSE client_weight_fn(local_outputs)

Weights(proc, outs) == [j \in 1..Len(outs) |-> ClientWeight(proc, outs[j])]

\* The denominator of the federated average: the sum of the weights.
Denominator(proc, outs) == SumSeq(Weights(proc, outs))

NoAgg == [computed |-> FALSE, weights |-> <<>>, denominator |-> 0]

\* The aggregation of a list of local outputs under a training process.
Aggregation(proc, outs) ==
    [computed |-> TRUE, weights |-> Weights(proc, outs),
     denominator |-> Denominator(proc, outs)]

\* Variant in which a zero denominator goes unnoticed.
DegenerateIgnored(a) == FALSE

\* A zero denominator leaves the weighted average undefined: the round
\* fails.
Degenerate(a) == a.denominator = 0

\* What one client can report after local training: examples, batches and
\* non-padding tokens (an int64[1] vector); every example is one batch here
\* and holds at least one non-padding token.
LocalOutputs(maxExamples, maxTokens) ==
    {o \in [num_examples : 0..maxExamples, num_batches : 0..maxExamples,
            num_tokens : {<<t>> : t \in 0..maxTokens}] :
        /\ o.num_batches = o.num_examples
        /\ (o.num_examples = 0) <=> (o.num_tokens[1] = 0)
        /\ o.num_tokens[1] >= o.num_examples}

ConfigurationError(size) ==
    [type |-> "ConfigurationError",
     template |-> "clients_per_round exceeds the available clients",
     args |-> <<>>]

DataResolutionError(client) ==
    [type |-> "DataResolutionError",
     template |-> "client id not in dataset",
     args |-> <<client>>]

AggregationDegenerateError ==
    [type |-> "AggregationDegenerateError",
     template |-> "sum of client weights is zero",
     args |-> <<>>]

TrainingError ==
    [type |-> "TrainingError", template |-> "next failed", args |-> <<>>]

\* One call of initialize or next: the state it was given, the state it
\* returned (NoState when it raised).
Call(op, r, clients, s, out, ok) ==
    [op |-> op, round |-> r, clients |-> clients, state_in |-> s,
     state_out |-> out, ok |-> ok]

\* model_builder(): a new Keras model, its weights those of no server state.
KerasModel(model_builder) == [builder |-> model_builder, weights |-> <<>>]

\* ServerState.assign_weights_to_keras_model(state, keras_model): the state's
\* model weights are copied into the Keras model; the state is only read.
assign_weights_to_keras_model(s, keras_model) ==
    [keras_model EXCEPT !.weights = <<s.version>>]

\* The function build_evaluate_fn returns, applied to a server state: a new
\* model receives the state's weights and is evaluated on eval_dataset.
Evaluate(fn, name, r, s) ==
    [fn |-> name, round |-> r, state |-> s,
     model |-> assign_weights_to_keras_model(s, KerasModel(fn.model_builder)),
     eval_dataset |-> fn.eval_dataset]

Terminal == {"done", "aborted", "external"}

(***************************************************************************)
(* Configurations and the initial state.                                   *)
(***************************************************************************)
Seeds == {<<s>> : s \in 1..MaxSeed}

\* The program started from the command line: the flags of main.
MainConfigs ==
    {c \in [entry : {"main"},
            task : Range(SUPPORTED_TASKS) \cup {None},
            emnist_model : EMNIST_CR_MODEL_FLAG,
            clients_per_round : 0..(NumClients + 1),
            seed : Seeds,
            total_rounds : 0..MaxRounds] :
        c.task # "emnist_cr" => c.emnist_model = "cnn"}

\* A driver's run_federated called directly, with its own arguments.
DirectConfigs ==
    {c \in [entry : {"federated_emnist", "federated_stackoverflow"},
            task : {None},
            emnist_model : {"cnn", "2nn", "resnet"},
            clients_per_round : 0..(NumClients + 1),
            seed : Seeds,
            total_rounds : 0..MaxRounds] :
        c.entry # "federated_emnist" => c.emnist_model = "cnn"}

EntryPc(c) == IF c.entry = "main" THEN "main" ELSE "run_federated"
EntryDriver(c) == IF c.entry = "main" THEN None ELSE c.entry

\* The arguments run_federated receives: common_args when main calls it.
Args(c) ==
    IF c.entry = "main" THEN common_args(c)
    ELSE [clients_per_round |-> c.clients_per_round,
          client_datasets_random_seed |-> c.seed]

\* The clients' training data, by what each reports after a round on it:
\* the first e clients hold no example, the others one example of 2 tokens.
TrainData ==
    {[c \in ClientIds |->
         IF c <= e
         THEN [num_examples |-> 0, num_batches |-> 0, num_tokens |-> <<0>>]
         ELSE [num_examples |-> 1, num_batches |-> 1, num_tokens |-> <<2>>]] :
     e \in 0..NumClients}

Example(j, raw) == [id |-> j, raw |-> raw]

InitRuns ==
    /\ pc = [i \in Runs |-> IF i = "a" THEN EntryPc(cfg) ELSE "idle"]
    /\ argv = [i \in Runs |-> 0]
    /\ driver = [i \in Runs |-> IF i = "a" THEN EntryDriver(cfg) ELSE None]
    /\ error = [i \in Runs |-> NoError]
    /\ process = [i \in Runs |-> NoProcess]
    /\ sampler = [i \in Runs |-> NoSampler]
    /\ state = [i \in Runs |-> NoState]
    /\ round_num = [i \in Runs |-> 0]
    /\ sampled = [i \in Runs |-> <<>>]
    /\ calls = [i \in Runs |-> <<>>]
    /\ agg = [i \in Runs |-> NoAgg]
    /\ splits = [i \in Runs |-> NoSplit]
    /\ evalfns = [i \in Runs |-> NoEvalFns]
    /\ evals = [i \in Runs |-> <<>>]

NoBatch == [vocab_size |-> 0, num_oov_buckets |-> 0, labels |-> <<>>,
            predictions |-> <<>>]
NoMetrics == [computed |-> FALSE]

Init ==
    /\ cfg \in MainConfigs \cup DirectConfigs
    /\ InitRuns
    /\ train \in TrainData
    /\ held = [base_test_dataset |-> <<Example(1, "x"), Example(2, "y")>>,
               num_validation_examples |-> 1]
    /\ batch = NoBatch
    /\ metrics = NoMetrics
    /\ outputs = <<>>
    /\ aggregate = NoAgg

(***************************************************************************)
(* The program's steps.                                                    *)
(***************************************************************************)
Abort(i, e) ==
    /\ error' = [error EXCEPT ![i] = e]
    /\ pc' = [pc EXCEPT ![i] = "aborted"]

Raise(i, e) ==
    /\ error' = [error EXCEPT ![i] = e]
    /\ pc' = [pc EXCEPT ![i] = "raised"]

\* main(argv): the argument check, then the dispatch on FLAGS.task.
Main(i) ==
    /\ pc[i] = "main"
    /\ \E n \in 1..2 :
        /\ argv' = [argv EXCEPT ![i] = n]
        /\ IF n > 1
           THEN Abort(i, UsageError(n)) /\ UNCHANGED driver
           ELSE IF TaskDriver(cfg.task) = None
           THEN Abort(i, TaskError(cfg.task)) /\ UNCHANGED driver
           ELSE /\ driver' = [driver EXCEPT ![i] = TaskDriver(cfg.task)]
                /\ pc' = [pc EXCEPT ![i] =
                       IF TaskDriver(cfg.task) \in
                              {"federated_emnist", "federated_stackoverflow"}
                       THEN "run_federated" ELSE "external"]
                /\ UNCHANGED error
    /\ UNCHANGED <<cfg, process, sampler, state, round_num, sampled, calls,
                   agg, train, held, splits, evalfns, evals, batch, metrics, outputs, aggregate>>

\* federated_emnist.run_federated up to its call of training_loop.run.
RunFederatedEmnist(i) ==
    /\ pc[i] = "run_federated"
    /\ driver[i] = "federated_emnist"
    /\ IF EmnistModelBuilder(cfg.emnist_model) = None
       THEN /\ Abort(i, ModelError(cfg.emnist_model))
            /\ UNCHANGED <<process, sampler, evalfns>>
       ELSE /\ process' = [process EXCEPT ![i] = iterative_process_builder(None)]
            /\ sampler' = [sampler EXCEPT ![i] =
                   EmnistClientDatasetsFn(Args(cfg).clients_per_round,
                                          Args(cfg).client_datasets_random_seed)]
            /\ evalfns' = [evalfns EXCEPT ![i] =
                   EmnistEvalFns(get_emnist_test(held.base_test_dataset),
                                 EmnistModelBuilder(cfg.emnist_model))]
            /\ pc' = [pc EXCEPT ![i] = "training_loop"]
            /\ UNCHANGED error
    /\ UNCHANGED <<cfg, argv, driver, state, round_num, sampled, calls, agg,
                   train, held, splits, evals, batch, metrics, outputs,
                   aggregate>>

\* federated_stackoverflow.run_federated up to its call of training_loop.run.
RunFederatedStackoverflow(i) ==
    /\ pc[i] = "run_federated"
    /\ driver[i] = "federated_stackoverflow"
    /\ splits' = [splits EXCEPT ![i] =
           SplitHeldOut(held.base_test_dataset, held.num_validation_examples)]
    /\ process' = [process EXCEPT ![i] =
           iterative_process_builder("client_weight_fn")]
    /\ sampler' = [sampler EXCEPT ![i] =
           StackoverflowClientDatasetsFn(Args(cfg).clients_per_round,
                                         Args(cfg).client_datasets_random_seed)]
    /\ evalfns' = [evalfns EXCEPT ![i] =
           StackoverflowEvalFns(SplitHeldOut(held.base_test_dataset,
                                             held.num_validation_examples))]
    /\ pc' = [pc EXCEPT ![i] = "training_loop"]
    /\ UNCHANGED <<cfg, argv, driver, error, state, round_num, sampled, calls,
                   agg, train, held, evals, batch, metrics, outputs, aggregate>>

\* training_loop.run: initialize is called as the loop is entered.
LoopInitialize(i) ==
    /\ pc[i] = "training_loop"
    /\ state' = [state EXCEPT ![i] = initialize]
    /\ round_num' = [round_num EXCEPT ![i] = 0]
    /\ calls' = [calls EXCEPT ![i] =
           Append(@, Call("initialize", 0, <<>>, NoState, initialize, TRUE))]
    /\ pc' = [pc EXCEPT ![i] = "round"]
    /\ UNCHANGED <<cfg, argv, driver, error, process, sampler, sampled, agg,
                   train, held, splits, evalfns, evals, batch, metrics, outputs, aggregate>>

\* A round begins: client_datasets_fn(round_num) samples the clients and
\* resolves the dataset of each.
LoopSample(i) ==
    /\ pc[i] = "round"
    /\ round_num[i] < cfg.total_rounds
    /\ IF SampleChoices(sampler[i], round_num[i]) = {}
       THEN /\ Raise(i, ConfigurationError(sampler[i].train_clients_per_round))
            /\ UNCHANGED sampled
       ELSE \E s \in SampleChoices(sampler[i], round_num[i]) :
            \E resolved \in BOOLEAN :
                IF resolved \/ s = <<>>
                THEN /\ sampled' = [sampled EXCEPT ![i] = s]
                     /\ pc' = [pc EXCEPT ![i] = "next"]
                     /\ UNCHANGED error
                ELSE /\ Raise(i, DataResolutionError(s[1]))
                     /\ UNCHANGED sampled
    /\ UNCHANGED <<cfg, argv, driver, process, sampler, state, round_num,
                   calls, agg, train, held, splits, evalfns, evals, batch, metrics, outputs,
                   aggregate>>

\* The round's call of next: every sampled client trains and reports its
\* local outputs; the weighted average replaces the server state.  A zero
\* denominator, or a failure inside next, fails the round.
LoopNext(i) ==
    /\ pc[i] = "next"
    /\ \E failed \in BOOLEAN :
       LET outs == [j \in 1..Len(sampled[i]) |-> train[sampled[i][j]]] IN
           IF failed
           THEN /\ Raise(i, TrainingError)
                /\ calls' = [calls EXCEPT ![i] = Append(@,
                       Call("next", round_num[i], sampled[i], state[i],
                            NoState, FALSE))]
                /\ UNCHANGED <<state, round_num, agg>>
           ELSE /\ agg' = [agg EXCEPT ![i] = Aggregation(process[i], outs)]
                /\ IF Degenerate(Aggregation(process[i], outs))
                   THEN /\ Raise(i, AggregationDegenerateError)
                        /\ calls' = [calls EXCEPT ![i] = Append(@,
                               Call("next", round_num[i], sampled[i], state[i],
                                    NoState, FALSE))]
                        /\ UNCHANGED <<state, round_num>>
                   ELSE /\ state' = [state EXCEPT ![i] = next(@)]
                        /\ round_num' = [round_num EXCEPT ![i] = @ + 1]
                        /\ calls' = [calls EXCEPT ![i] = Append(@,
                               Call("next", round_num[i], sampled[i], state[i],
                                    next(state[i]), TRUE))]
                        /\ pc' = [pc EXCEPT ![i] = "evaluate"]
                        /\ UNCHANGED error
    /\ UNCHANGED <<cfg, argv, driver, process, sampler, sampled, train, held, splits, evalfns, evals,
                   batch, metrics, outputs, aggregate>>

\* Variant in which evaluation hands the fresh model's weights back to the
\* loop as its server state.
LoopValidateReplacesState(i) ==
    /\ pc[i] = "evaluate"
    /\ evals' = [evals EXCEPT ![i] =
           IF (round_num[i] - 1) % RoundsPerEval = 0
           THEN Append(@, Evaluate(evalfns[i].validation_fn, "validation_fn",
                                   round_num[i] - 1, state[i]))
           ELSE @]
    /\ state' = [state EXCEPT ![i] = initialize]
    /\ pc' = [pc EXCEPT ![i] = "round"]
    /\ UNCHANGED <<cfg, argv, driver, error, process, sampler, round_num,
                   sampled, calls, agg, train, held, splits, evalfns, batch,
                   metrics, outputs, aggregate>>

\* After a round has committed its state: validation_fn evaluates the new
\* state when the round is one the cadence selects.
LoopValidate(i) ==
    /\ pc[i] = "evaluate"
    /\ evals' = [evals EXCEPT ![i] =
           IF (round_num[i] - 1) % RoundsPerEval = 0
           THEN Append(@, Evaluate(evalfns[i].validation_fn, "validation_fn",
                                   round_num[i] - 1, state[i]))
           ELSE @]
    /\ pc' = [pc EXCEPT ![i] = "round"]
    /\ UNCHANGED <<cfg, argv, driver, error, process, sampler, state,
                   round_num, sampled, calls, agg, train, held, splits,
                   evalfns, batch, metrics, outputs, aggregate>>

\* The loop ends once total_rounds rounds have run: test_fn evaluates the
\* final state.
LoopFinish(i) ==
    /\ pc[i] = "round"
    /\ round_num[i] >= cfg.total_rounds
    /\ evals' = [evals EXCEPT ![i] =
           Append(@, Evaluate(evalfns[i].test_fn, "test_fn", round_num[i],
                              state[i]))]
    /\ pc' = [pc EXCEPT ![i] = "done"]
    /\ UNCHANGED <<cfg, argv, driver, error, process, sampler, state,
                   round_num, sampled, calls, agg, train, held, splits,
                   evalfns, batch, metrics, outputs, aggregate>>

\* Variant in which the driver catches the exception and runs the loop
\* again.
UnwindRetriesLoop(i) ==
    /\ pc[i] = "raised"
    /\ pc' = [pc EXCEPT ![i] = "training_loop"]
    /\ UNCHANGED <<cfg, argv, driver, error, process, sampler, state,
                   round_num, sampled, calls, agg, train, held, splits, evalfns, evals, batch,
                   metrics, outputs, aggregate>>

\* An exception raised inside training_loop.run: run_federated calls it
\* outside any try block, and so does main call run_federated, so the
\* exception leaves the program.
Unwind(i) ==
    /\ pc[i] = "raised"
    /\ pc' = [pc EXCEPT ![i] = "aborted"]
    /\ UNCHANGED <<cfg, argv, driver, error, process, sampler, state,
                   round_num, sampled, calls, agg, train, held, splits, evalfns, evals, batch,
                   metrics, outputs, aggregate>>

\* The experiment is run again, with the same configuration, once the
\* first run has ended.
Rerun(i) ==
    /\ pc[i] = "idle"
    /\ \A j \in Runs \ {i} : pc[j] \in Terminal
    /\ pc' = [pc EXCEPT ![i] = EntryPc(cfg)]
    /\ driver' = [driver EXCEPT ![i] = EntryDriver(cfg)]
    /\ UNCHANGED <<cfg, argv, error, process, sampler, state, round_num,
                   sampled, calls, agg, train, held, splits, evalfns, evals, batch, metrics, outputs,
                   aggregate>>

Next ==
    \E i \in Runs :
        \/ Main(i)
        \/ RunFederatedEmnist(i)
        \/ RunFederatedStackoverflow(i)
        \/ LoopInitialize(i)
        \/ LoopSample(i)
        \/ LoopNext(i)
        \/ LoopValidate(i)
        \/ LoopFinish(i)
        \/ Unwind(i)
        \/ Rerun(i)

Spec == Init /\ [][Next]_vars

(***************************************************************************)
(* The held-out split on its own: run_federated of the Stack Overflow      *)
(* driver applied to every small held-out dataset and cutoff.              *)
(***************************************************************************)
RawExamples == {"x", "y"}

HeldOutDatasets ==
    UNION {{[j \in 1..n |-> Example(j, raws[j])] : raws \in [1..n -> RawExamples]} :
           n \in 0..MaxHeldOut}

SplitConfig ==
    [entry |-> "federated_stackoverflow", task |-> None,
     emnist_model |-> "cnn", clients_per_round |-> 1, seed |-> <<1>>,
     total_rounds |-> 0]

InitSplit ==
    /\ cfg = SplitConfig
    /\ InitRuns
    /\ train \in {t \in TrainData : \A c \in ClientIds : t[c].num_examples = 1}
    /\ held \in [base_test_dataset : HeldOutDatasets,
                 num_validation_examples : (-1)..(MaxHeldOut + 1)]
    /\ batch = NoBatch
    /\ metrics = NoMetrics
    /\ outputs = <<>>
    /\ aggregate = NoAgg

NextSplit == RunFederatedStackoverflow("a")

SpecSplit == InitSplit /\ [][NextSplit]_vars

(***************************************************************************)
(* The evaluation functions on their own: run_federated of either driver   *)
(* applied to every small held-out dataset and cutoff.                     *)
(***************************************************************************)
EvalConfigs ==
    {c \in [entry : {"federated_emnist", "federated_stackoverflow"},
            task : {None},
            emnist_model : Range(EMNIST_MODELS),
            clients_per_round : {1},
            seed : {<<1>>},
            total_rounds : {0}] :
        c.entry # "federated_emnist" => c.emnist_model = "cnn"}

InitEval ==
    /\ cfg \in EvalConfigs
    /\ InitRuns
    /\ train \in {t \in TrainData : \A c \in ClientIds : t[c].num_examples = 1}
    /\ held \in [base_test_dataset : HeldOutDatasets,
                 num_validation_examples : (-1)..(MaxHeldOut + 1)]
    /\ batch = NoBatch
    /\ metrics = NoMetrics
    /\ outputs = <<>>
    /\ aggregate = NoAgg

NextEval ==
    \/ RunFederatedEmnist("a")
    \/ RunFederatedStackoverflow("a")

SpecEval == InitEval /\ [][NextEval]_vars

(***************************************************************************)
(* The metrics on their own: the metrics of metrics_builder updated with   *)
(* one batch of ground-truth labels and predicted tokens.                  *)
(***************************************************************************)
\* MaskedCategoricalAccuracy: a position counts, in the numerator and in
\* the denominator, only if its label is not a masked token.
MaskedCategoricalAccuracy(masked_tokens, labels, predictions) ==
    [correct |-> Cardinality({j \in DOMAIN labels :
                     /\ labels[j] \notin Range(masked_tokens)
                     /\ predictions[j] = labels[j]}),
     total |-> Cardinality({j \in DOMAIN labels :
                     labels[j] \notin Range(masked_tokens)})]

\* NumTokensCounter: the labels that are not masked.
NumTokensCounter(masked_tokens, labels) ==
    Cardinality({j \in DOMAIN labels : labels[j] \notin Range(masked_tokens)})

\* Token ids of the extended vocabulary: pad, words, oov buckets, bos, eos.
TokenIds(vocab_size, num_oov_buckets) == 0..(vocab_size + num_oov_buckets + 2)

\* A token other than t, for a wrong prediction at a position labelled t.
Mispredicted(t, v, o) == (t + 1) % (v + o + 3)

\* Batches: the labels never hold the beginning-of-sequence token; each
\* prediction is the label or a token that is not the label.
Batches ==
    UNION {
      {b \in [vocab_size : {v}, num_oov_buckets : {o},
              labels : [1..n -> TokenIds(v, o) \ {get_special_tokens(v, o).bos}],
              predictions : [1..n -> TokenIds(v, o)]] :
          \A j \in 1..n :
              b.predictions[j] \in
                  {b.labels[j], Mispredicted(b.labels[j], v, o)}} :
      v \in 1..MaxVocab, o \in 0..MaxOov, n \in 0..MaxBatch}

InitMetrics ==
    /\ cfg = SplitConfig
    /\ InitRuns
    /\ train \in {t \in TrainData : \A c \in ClientIds : t[c].num_examples = 1}
    /\ held = [base_test_dataset |-> <<>>, num_validation_examples |-> 0]
    /\ batch \in Batches
    /\ metrics = NoMetrics
    /\ outputs = <<>>
    /\ aggregate = NoAgg

\* The metrics built by metrics_builder, updated with the batch.
UpdateMetrics ==
    /\ ~metrics.computed
    /\ LET built == metrics_builder(
                        get_special_tokens(batch.vocab_size,
                                           batch.num_oov_buckets))
       IN  metrics' =
             [computed |-> TRUE,
              accuracy_with_oov |-> MaskedCategoricalAccuracy(
                  built.accuracy_with_oov, batch.labels, batch.predictions),
              accuracy_no_oov |-> MaskedCategoricalAccuracy(
                  built.accuracy_no_oov, batch.labels, batch.predictions),
              accuracy_no_oov_or_eos |-> MaskedCategoricalAccuracy(
                  built.accuracy_no_oov_or_eos, batch.labels,
                  batch.predictions),
              num_tokens |-> NumTokensCounter(built.num_tokens, batch.labels)]
    /\ UNCHANGED <<cfg, pc, argv, driver, error, process, sampler, state,
                   round_num, sampled, calls, agg, train, held, splits, evalfns, evals, batch,
                   outputs, aggregate>>

NextMetrics == UpdateMetrics

SpecMetrics == InitMetrics /\ [][NextMetrics]_vars

(***************************************************************************)
(* The client weighting on its own: the process a driver builds,           *)
(* aggregating the local outputs of a list of clients.                     *)
(***************************************************************************)
AggConfigs ==
    {[entry |-> e, task |-> None, emnist_model |-> "cnn",
      clients_per_round |-> NumAggClients, seed |-> <<1>>,
      total_rounds |-> 1] :
     e \in {"federated_emnist", "federated_stackoverflow"}}

InitAgg ==
    /\ cfg \in AggConfigs
    /\ InitRuns
    /\ train \in {t \in TrainData : \A c \in ClientIds : t[c].num_examples = 1}
    /\ held = [base_test_dataset |-> <<>>, num_validation_examples |-> 0]
    /\ batch = NoBatch
    /\ metrics = NoMetrics
    /\ outputs \in [1..NumAggClients -> LocalOutputs(MaxExamples, MaxTokens)]
    /\ aggregate = NoAgg

\* One federated average over the clients' local outputs.
Aggregate ==
    /\ process["a"].built
    /\ ~aggregate.computed
    /\ aggregate' = Aggregation(process["a"], outputs)
    /\ UNCHANGED <<cfg, pc, argv, driver, error, process, sampler, state,
                   round_num, sampled, calls, agg, train, held, splits, evalfns, evals, batch,
                   metrics, outputs>>

NextAgg ==
    \/ RunFederatedEmnist("a")
    \/ RunFederatedStackoverflow("a")
    \/ Aggregate

SpecAgg == InitAgg /\ [][NextAgg]_vars

(***************************************************************************)
(* Properties.                                                             *)
(***************************************************************************)
IsNext(c) == c.op = "next"
IsInitialize(c) == c.op = "initialize"
NextCalls(i) == SelectSeq(calls[i], IsNext)
InitializeCalls(i) == SelectSeq(calls[i], IsInitialize)
IsCommitted(c) == c.op = "next" /\ c.ok
CommittedCalls(i) == SelectSeq(calls[i], IsCommitted)

Distinct(s) == \A j, k \in DOMAIN s : j # k => s[j] # s[k]

\* C1: initialize is called at most once and before any call of next, next
\* is called at most total_rounds times, and an experiment that runs to its
\* end has called initialize exactly once and next exactly total_rounds
\* times.
C1_InitializeOnceThenNextPerRound ==
    \A i \in Runs :
        /\ Len(InitializeCalls(i)) <= 1
        /\ calls[i] # <<>> => IsInitialize(calls[i][1])
        /\ Len(NextCalls(i)) <= cfg.total_rounds
        /\ pc[i] = "done" =>
               /\ Len(InitializeCalls(i)) = 1
               /\ Len(NextCalls(i)) = cfg.total_rounds

\* C1 witness: a finished experiment of 3 rounds with 2 clients per round.
C1_Witness ==
    /\ pc["a"] = "done"
    /\ cfg.total_rounds = 3
    /\ cfg.clients_per_round = 2
    /\ Len(NextCalls("a")) = 3

\* C2: the clients handed to next in any round (and those sampled for the
\* round in progress) are exactly clients_per_round client ids, no id twice.
C2_SampleSizeAndDistinct ==
    \A i \in Runs :
        /\ \A k \in DOMAIN calls[i] :
               IsNext(calls[i][k]) =>
                   /\ Len(calls[i][k].clients) = cfg.clients_per_round
                   /\ Distinct(calls[i][k].clients)
        /\ pc[i] = "next" =>
               /\ Len(sampled[i]) = cfg.clients_per_round
               /\ Distinct(sampled[i])

\* C2 witness: a client handed to next in one round is handed to next again
\* in a later round, where the rounds' selections differ.
C2_Witness ==
    \E k1, k2 \in DOMAIN calls["a"] :
        /\ k1 < k2
        /\ IsNext(calls["a"][k1]) /\ IsNext(calls["a"][k2])
        /\ cfg.clients_per_round = 2
        /\ Range(calls["a"][k1].clients) # Range(calls["a"][k2].clients)
        /\ Range(calls["a"][k1].clients) \cap Range(calls["a"][k2].clients) # {}

\* C3: two runs of the experiment with the same seed and clients_per_round
\* hand the same clients to next in every round both of them ran.
C3_SameSeedSameSelections ==
    \A ka \in DOMAIN calls["a"], kb \in DOMAIN calls["b"] :
        (/\ IsNext(calls["a"][ka]) /\ IsNext(calls["b"][kb])
         /\ calls["a"][ka].round = calls["b"][kb].round)
        => calls["a"][ka].clients = calls["b"][kb].clients

\* C3 witness: both runs ran at least two rounds with a non-empty selection
\* that changed from round 0 to round 1.
C3_Witness ==
    /\ Len(NextCalls("a")) >= 2
    /\ Len(NextCalls("b")) >= 2
    /\ cfg.clients_per_round >= 1
    /\ NextCalls("a")[1].clients # NextCalls("a")[2].clients

SeqToBag(s) == [x \in Range(s) |-> Cardinality({j \in DOMAIN s : s[j] = x})]

SplitIsPartition(sp) ==
    /\ Range(sp.validation_set) \cap Range(sp.test_set) = {}
    /\ SeqToBag(sp.validation_set) (+) SeqToBag(sp.test_set)
           = SeqToBag(preprocess_val_and_test(held.base_test_dataset))
    /\ sp.validation_set \o sp.test_set
           = preprocess_val_and_test(held.base_test_dataset)

\* C4 (as amended): for a held-out dataset of N examples and a cutoff K, the
\* validation split holds K examples and the test split N - K when
\* 0 <= K <= N; when K > N or K < 0 the validation split holds all N and
\* the test split none.  In every case the two are disjoint and validation
\* followed by test is the held-out dataset.
C4_SplitPartitionsHeldOut ==
    \A i \in Runs :
        splits[i].built =>
            LET N == Len(held.base_test_dataset)
                K == held.num_validation_examples
                V == IF K < 0 \/ K > N THEN N ELSE K
            IN  /\ Len(splits[i].validation_set) = V
                /\ Len(splits[i].test_set) = N - V
                /\ SplitIsPartition(splits[i])

\* C4 witness: a split of 3 examples at cutoff 1.
C4_Witness ==
    /\ splits["a"].built
    /\ Len(held.base_test_dataset) = 3
    /\ held.num_validation_examples = 1
    /\ Len(splits["a"].test_set) = 2

\* C4 (as claimed): |validation| = K and |test| = N - K for every N and
\* every K (here: every K >= 0), the two disjoint and together the held-out
\* dataset.
C4_SplitSizesForEveryCutoff ==
    \A i \in Runs :
        (splits[i].built /\ held.num_validation_examples >= 0) =>
            /\ Len(splits[i].validation_set) = held.num_validation_examples
            /\ Len(splits[i].test_set) =
                   Len(held.base_test_dataset) - held.num_validation_examples
            /\ SplitIsPartition(splits[i])

\* C5 (as claimed): when clients_per_round exceeds the number of client ids
\* (and there is a round to run) the experiment fails before initialize or
\* next is called and before the round loop is entered.
C5_OversizedSampleRejectedAtStartup ==
    \A i \in Runs :
        (cfg.clients_per_round > NumClients /\ cfg.total_rounds >= 1) =>
            /\ calls[i] = <<>>
            /\ pc[i] \notin {"round", "next"}

NothingBuiltOrRun(i) ==
    /\ ~process[i].built
    /\ ~sampler[i].built
    /\ calls[i] = <<>>
    /\ ~state[i].defined

\* C6: once main has passed its argument check with a task that is not
\* supported, the run is aborted with a ValueError holding the task and the
\* supported tasks, no driver is called, no process is built and no round is
\* run; once the EMNIST run_federated has acted on a model name that is not
\* an EMNIST model, the run is aborted with a ValueError holding the name
\* and the EMNIST models, no process is built and no round is run; a
\* supported task reaches the one driver of its name, and no two tasks share
\* a driver.
C6_InvalidNamesAbortBeforeBuilding ==
    /\ \A t1, t2 \in Range(SUPPORTED_TASKS) :
           /\ TaskDriver(t1) # None
           /\ t1 # t2 => TaskDriver(t1) # TaskDriver(t2)
    /\ \A i \in Runs :
        /\ (cfg.entry = "main" /\ argv[i] = 1) =>
               IF cfg.task \in Range(SUPPORTED_TASKS)
               THEN /\ driver[i] = TaskDriver(cfg.task)
                    /\ ~(error[i].type = "ValueError"
                         /\ error[i].args[1] = cfg.task)
               ELSE /\ pc[i] = "aborted"
                    /\ driver[i] = None
                    /\ error[i].type = "ValueError"
                    /\ error[i].args = <<cfg.task, SUPPORTED_TASKS>>
                    /\ NothingBuiltOrRun(i)
        /\ (/\ driver[i] = "federated_emnist"
            /\ pc[i] # "run_federated"
            /\ cfg.emnist_model \notin Range(EMNIST_MODELS)) =>
               /\ pc[i] = "aborted"
               /\ error[i].type = "ValueError"
               /\ error[i].args = <<cfg.emnist_model, EMNIST_MODELS>>
               /\ NothingBuiltOrRun(i)

\* C6 witness: the EMNIST driver was given the model name "resnet" and the
\* run is aborted with the error naming it.
C6_Witness ==
    /\ cfg.emnist_model = "resnet"
    /\ pc["a"] = "aborted"
    /\ error["a"] = ModelError("resnet")

\* Whether the accuracy correct/total of x is at least that of y, a metric
\* with no counted position having the value 0.
AccuracyAtLeast(x, y) ==
    IF y.total = 0 THEN TRUE
    ELSE IF x.total = 0 THEN y.correct = 0
    ELSE x.correct * y.total >= y.correct * x.total

\* C7 (as amended): on any batch, the positions counted (the denominators)
\* and the correct positions counted (the numerators) of the three masked
\* accuracies are ordered, accuracy_with_oov >= accuracy_no_oov >=
\* accuracy_no_oov_or_eos, each metric counting exactly the positions whose
\* label is outside its exclusion set; the accuracies themselves are not
\* ordered.
C7_MaskedCountsOrdered ==
    metrics.computed =>
        LET a == metrics.accuracy_with_oov
            b == metrics.accuracy_no_oov
            c == metrics.accuracy_no_oov_or_eos
            st == get_special_tokens(batch.vocab_size, batch.num_oov_buckets)
            Counted(excluded) ==
                {j \in DOMAIN batch.labels : batch.labels[j] \notin excluded}
            Correct(excluded) ==
                {j \in Counted(excluded) :
                    batch.predictions[j] = batch.labels[j]}
            Ex1 == {st.pad}
            Ex2 == {st.pad} \cup Range(st.oov)
            Ex3 == {st.pad, st.eos} \cup Range(st.oov)
        IN  /\ a.total >= b.total /\ b.total >= c.total
            /\ a.correct >= b.correct /\ b.correct >= c.correct
            /\ a.total = Cardinality(Counted(Ex1))
            /\ b.total = Cardinality(Counted(Ex2))
            /\ c.total = Cardinality(Counted(Ex3))
            /\ a.correct = Cardinality(Correct(Ex1))
            /\ b.correct = Cardinality(Correct(Ex2))
            /\ c.correct = Cardinality(Correct(Ex3))
            /\ metrics.num_tokens = a.total

\* C7 witness: a batch with a word, an out-of-vocabulary and an
\* end-of-sequence label, so that the three metrics count 3, 2 and 1
\* positions.
C7_Witness ==
    /\ metrics.computed
    /\ metrics.accuracy_with_oov.total = 3
    /\ metrics.accuracy_no_oov.total = 2
    /\ metrics.accuracy_no_oov_or_eos.total = 1

\* C7 (as claimed): on any batch accuracy_with_oov >= accuracy_no_oov >=
\* accuracy_no_oov_or_eos.
C7_MaskedAccuraciesOrdered ==
    metrics.computed =>
        /\ AccuracyAtLeast(metrics.accuracy_with_oov, metrics.accuracy_no_oov)
        /\ AccuracyAtLeast(metrics.accuracy_no_oov,
                           metrics.accuracy_no_oov_or_eos)

TokenCounts(outs) == [j \in DOMAIN outs |-> outs[j].num_tokens[1]]

\* C8: in an aggregation of the Stack Overflow process every client's weight
\* is its count of non-padding tokens, never negative and zero for a client
\* with no token, and the denominator is the sum of the token counts; in an
\* aggregation of the EMNIST process, built without client_weight_fn, every
\* client's weight is its number of examples.
C8_WeightsAreTokenCounts ==
    aggregate.computed =>
        /\ DOMAIN aggregate.weights = DOMAIN outputs
        /\ \A j \in DOMAIN outputs : aggregate.weights[j] >= 0
        /\ aggregate.denominator = SumSeq(aggregate.weights)
        /\ cfg.entry = "federated_stackoverflow" =>
               /\ aggregate.weights = TokenCounts(outputs)
               /\ aggregate.denominator = SumSeq(TokenCounts(outputs))
        /\ cfg.entry = "federated_emnist" =>
               \A j \in DOMAIN outputs :
                   aggregate.weights[j] = outputs[j].num_examples

\* C8 witness: the Stack Overflow process aggregating token counts 5, 0, 3:
\* weights 5, 0, 3 and denominator 8.
C8_Witness ==
    /\ cfg.entry = "federated_stackoverflow"
    /\ aggregate.computed
    /\ TokenCounts(outputs) = <<5, 0, 3>>
    /\ aggregate.weights = <<5, 0, 3>>
    /\ aggregate.denominator = 8

C10_FailedRoundAbortsExperiment ==
    \A i \in Runs :
        /\ \A k \in DOMAIN calls[i] :
               /\ (IsNext(calls[i][k]) /\ ~calls[i][k].ok) => k = Len(calls[i])
               /\ IsNext(calls[i][k]) => calls[i][k].round = k - 2
               /\ IsNext(calls[i][k]) => calls[i][k].state_in.version = k - 2
        /\ error[i].type # None => pc[i] \in {"raised", "aborted"}
        /\ state[i].version = Len(CommittedCalls(i))
        /\ round_num[i] = Len(CommittedCalls(i))

\* C10 witness: a run ended in round 1 because a sampled client's dataset
\* could not be resolved, with round 0 committed and no call of next for
\* round 1.
C10_Witness ==
    /\ pc["a"] = "aborted"
    /\ error["a"].type = "DataResolutionError"
    /\ round_num["a"] = 1
    /\ Len(NextCalls("a")) = 1
    /\ state["a"].version = 1

IsOk(c) == c.ok
ReturnedCalls(i) == SelectSeq(calls[i], IsOk)

\* C11: the rounds run one after the other and the server state is handed
\* on by value.  Every call of next directly follows a call that returned,
\* and receives the state that call returned: the call of initialize for
\* round 0, the call of next of round r for round r+1.  The state the loop
\* holds is always the state the last returning call returned, so an
\* evaluation, which copies the state into a model, leaves it as it was.
\* Once the clients of a round are sampled, every earlier round has
\* committed its state.  Each evaluation reads a state that a call
\* returned and gives the model exactly that state's weights.
C11_StateThreadedThroughRounds ==
    \A i \in Runs :
        /\ \A k \in DOMAIN calls[i] :
               IsNext(calls[i][k]) =>
                   /\ k >= 2
                   /\ calls[i][k - 1].ok
                   /\ calls[i][k].state_in = calls[i][k - 1].state_out
                   /\ IF calls[i][k].round = 0
                      THEN /\ IsInitialize(calls[i][k - 1])
                           /\ calls[i][k].state_in = initialize
                      ELSE /\ IsNext(calls[i][k - 1])
                           /\ calls[i][k - 1].round = calls[i][k].round - 1
        /\ calls[i] # <<>> =>
               /\ ReturnedCalls(i) # <<>>
               /\ state[i] = ReturnedCalls(i)[Len(ReturnedCalls(i))].state_out
        /\ pc[i] = "next" =>
               /\ Len(CommittedCalls(i)) = round_num[i]
               /\ \A r \in 0..(round_num[i] - 1) :
                      /\ CommittedCalls(i)[r + 1].round = r
                      /\ CommittedCalls(i)[r + 1].state_out.version = r + 1
               /\ state[i].version = round_num[i]
        /\ \A n \in DOMAIN evals[i] :
               LET e == evals[i][n] IN
                   /\ e.model.weights = <<e.state.version>>
                   /\ \E k \in DOMAIN calls[i] :
                          /\ calls[i][k].ok
                          /\ calls[i][k].state_out = e.state
                          /\ e.fn = "validation_fn" =>
                                 /\ IsNext(calls[i][k])
                                 /\ calls[i][k].round = e.round
                   /\ e.fn = "test_fn" => e.state = state[i]

\* A run that committed two rounds or more, validated a state during
\* training, tested the final state, and still holds that final state.
C11_Witness ==
    \E i \in Runs :
        /\ pc[i] = "done"
        /\ Len(CommittedCalls(i)) >= 2
        /\ state[i].version = Len(CommittedCalls(i))
        /\ \E n \in DOMAIN evals[i] : evals[i][n].fn = "validation_fn"
        /\ \E n \in DOMAIN evals[i] :
               /\ evals[i][n].fn = "test_fn"
               /\ evals[i][n].state = state[i]

\* What an evaluation function is built with besides its dataset.
Builders(fn) ==
    [model_builder |-> fn.model_builder, loss_builder |-> fn.loss_builder,
     metrics_builder |-> fn.metrics_builder,
     assign_weights_to_keras_model |-> fn.assign_weights_to_keras_model]

SameBuilders(i) ==
    /\ Builders(evalfns[i].validation_fn) = Builders(evalfns[i].test_fn)
    /\ evalfns[i].validation_fn.model_builder # None
    /\ evalfns[i].validation_fn.assign_weights_to_keras_model = assign_weights_fn

\* C12: a driver that reaches the round loop has built a validation
\* function and a test function with the same model builder, loss, metrics
\* and weight-assignment function.  In the Stack Overflow driver the
\* validation function evaluates the validation split only and the test
\* function evaluates the validation split followed by the test split,
\* which is the entire held-out dataset.  In the EMNIST driver no split is
\* made: the validation function and the test function are the same
\* function, evaluating the entire held-out dataset.
C12_EvaluationTargets ==
    \A i \in Runs :
        /\ pc[i] = "training_loop" => evalfns[i].built
        /\ evalfns[i].built =>
               /\ SameBuilders(i)
               /\ IF driver[i] = "federated_stackoverflow"
                  THEN /\ splits[i].built
                       /\ evalfns[i].validation_fn.eval_dataset =
                              splits[i].validation_set
                       /\ evalfns[i].validation_fn.eval_dataset =
                              preprocess_val_and_test(
                                  Take(held.base_test_dataset,
                                       held.num_validation_examples))
                       /\ evalfns[i].test_fn.eval_dataset =
                              splits[i].validation_set \o splits[i].test_set
                       /\ evalfns[i].test_fn.eval_dataset =
                              preprocess_val_and_test(held.base_test_dataset)
                  ELSE /\ driver[i] = "federated_emnist"
                       /\ ~splits[i].built
                       /\ evalfns[i].validation_fn = evalfns[i].test_fn
                       /\ evalfns[i].test_fn.eval_dataset =
                              get_emnist_test(held.base_test_dataset)

\* The Stack Overflow driver with a validation split and a test split that
\* both hold examples: the test function evaluates more than the validation
\* function does.
C12_Witness ==
    /\ driver["a"] = "federated_stackoverflow"
    /\ evalfns["a"].built
    /\ splits["a"].validation_set # <<>>
    /\ splits["a"].test_set # <<>>
    /\ Len(evalfns["a"].test_fn.eval_dataset) = Len(held.base_test_dataset)
    /\ Len(evalfns["a"].validation_fn.eval_dataset) <
           Len(evalfns["a"].test_fn.eval_dataset)

\* C12 as first stated, for every driver and every held-out dataset that
\* holds an example: the driver has made a validation split, its
\* validation function evaluates that split only, and its test function
\* evaluates that split followed by the test split, the entire held-out
\* dataset.
C12_ValidationFnEvaluatesSplitOnly ==
    \A i \in Runs :
        (evalfns[i].built /\ held.base_test_dataset # <<>>) =>
            /\ SameBuilders(i)
            /\ splits[i].built
            /\ evalfns[i].validation_fn.eval_dataset = splits[i].validation_set
            /\ evalfns[i].test_fn.eval_dataset =
                   splits[i].validation_set \o splits[i].test_set
            /\ evalfns[i].test_fn.eval_dataset =
                   preprocess_val_and_test(held.base_test_dataset)
====
